---- MODULE Spec2Model ----
(***************************************************************************)
(* The betting table of src/src/bets/mod.rs: players place bets on a race, *)
(* outcomes are registered, and results() pays every matching bet.         *)
(***************************************************************************)
EXTENDS Integers, Sequences, FiniteSets, TLC

\* ------------------------------------------------------------------ bounds
NumPlayers == 2
NumDrivers == 2
NumPositions == 2
MaxBets == 3
MaxOutcomes == 1
MaxReward == 1
MaxScoreOutcomes == 2

\* ------------------------------------------------------------ value types
\* enum Driver, in declaration order
DriverRoster ==
  << "VER", "PER", "LEC", "SAI", "HAM", "RUS", "ALO", "OCO", "NOR", "RIC",
     "BOT", "ZHO", "STR", "VET", "MSC", "MAG", "GAS", "TSU", "LAT", "ALB" >>

Drivers == { DriverRoster[i] : i \in 1..NumDrivers }

\* PlayerName = String; the names the calls are made with
PlayerNames == << "demi", "michiel", "Nuyts" >>

Players == { PlayerNames[i] : i \in 1..NumPlayers }

\* Position::new accepts 1..=20
MinPosition == 1
MaxPosition == 20

\* the argument of Position::new is a u8
U8_MAX == 255

\* Position::new clamping its argument into the range
Position_new_clamped(position) ==
  [tag |-> "Ok",
   value |-> IF position < MinPosition THEN MinPosition
             ELSE IF position > MaxPosition THEN MaxPosition ELSE position]

\* Position::new: Self(position), or panic!("Wrong input for position")
Position_new(position) ==
  IF position \in MinPosition..MaxPosition
    THEN [tag |-> "Ok", value |-> position]
    ELSE [tag |-> "Panic", message |-> "Wrong input for position"]

\* the positions the calls are made with
Positions ==
  { Position_new(n).value :
      n \in { m \in 0..NumPositions : Position_new(m).tag = "Ok" } }

\* u64, kept as NumLimbs digits in base LimbBase, the least significant first
\* (LimbBase ^ NumLimbs = 2^64)
LimbBase == 65536
NumLimbs == 4

RECURSIVE limbs(_, _)
limbs(n, k) ==
  IF k = 0 THEN << >> ELSE << n % LimbBase >> \o limbs(n \div LimbBase, k - 1)

\* the u64 of a small number
u64(n) == limbs(n, NumLimbs)

\* u64::MAX
U64_MAX == [i \in 1..NumLimbs |-> LimbBase - 1]

\* the sum of the digits i.. of two u64 and a carry, and the carry out
RECURSIVE add_limbs(_, _, _, _)
add_limbs(a, b, i, carry) ==
  IF i > NumLimbs THEN [value |-> << >>, carry |-> carry]
  ELSE LET s == a[i] + b[i] + carry
           rest == add_limbs(a, b, i + 1, s \div LimbBase)
       IN  [value |-> << s % LimbBase >> \o rest.value, carry |-> rest.carry]

\* a + b on u64: the sum modulo 2^64, and carry = 1 when it overflowed
overflowing_add(a, b) == add_limbs(a, b, 1, 0)

\* Outcome.reward: u64
Rewards == { u64(r) : r \in 0..MaxReward }

\* enum Bet, one constructor per variant
FinishPosition(d, p) == [kind |-> "FinishPosition", driver |-> d, position |-> p]

DoesNotFinish(d) == [kind |-> "DoesNotFinish", driver |-> d]

FastestLap(d) == [kind |-> "FastestLap", driver |-> d]

DriverOfTheDay(d) == [kind |-> "DriverOfTheDay", driver |-> d]

WillHaveSafetyCar(v) == [kind |-> "WillHaveSafetyCar", val |-> v]

Bets ==
  { FinishPosition(d, p) : d \in Drivers, p \in Positions }
    \cup { DoesNotFinish(d) : d \in Drivers }
    \cup { FastestLap(d) : d \in Drivers }
    \cup { DriverOfTheDay(d) : d \in Drivers }
    \cup { WillHaveSafetyCar(v) : v \in BOOLEAN }

\* std::mem::discriminant: the variant of a bet, without its payload
discriminant(bet) == bet.kind

\* struct Outcome { outcome, reward }
Outcome(b, r) == [outcome |-> b, reward |-> r]

Outcomes == { Outcome(b, r) : b \in Bets, r \in Rewards }

\* ------------------------------------------------------------------ state
VARIABLES
  placed_bets,  \* HashMap<PlayerName, Vec<Bet>>
  outcomes,     \* Vec<Outcome>
  call,         \* the last call made on the table, with its return value
  earlier       \* the calls made before it, as far back as a specification
                \* keeps them

vars == << placed_bets, outcomes, call, earlier >>

\* HashMap::new()
EmptyMap == [k \in {} |-> 0]

\* BettingTable::new
Init ==
  /\ placed_bets = EmptyMap
  /\ outcomes = << >>
  /\ call = [op |-> "new"]
  /\ earlier = << >>

\* ------------------------------------------------------------- validation
\* the bets of every player, one collection after the other
RECURSIVE all_bets(_)
all_bets(S) ==
  IF S = {} THEN << >>
  ELSE LET p == CHOOSE q \in S : TRUE
       IN  placed_bets[p] \o all_bets(S \ {p})

\* get_bets_for reading the whole table instead of the player's entry
get_bets_for_any_player(player) == all_bets(DOMAIN placed_bets)

get_bets_for(player) ==
  IF player \in DOMAIN placed_bets THEN placed_bets[player] ELSE << >>

\* the closure of is_driver_free: true of a bet that is no FinishPosition, or
\* one for another driver
driver_differs(bet, driver) ==
  IF bet.kind = "FinishPosition" THEN driver # bet.driver ELSE TRUE

\* the closure of is_position_free
position_differs(bet, position) ==
  IF bet.kind = "FinishPosition" THEN position # bet.position ELSE TRUE

\* existing_bets.iter().any(..) over the driver closure
is_driver_free(existing_bets, driver) ==
  \E i \in 1..Len(existing_bets) : driver_differs(existing_bets[i], driver)

\* the position closure left out of the FinishPosition arm
is_position_free_ignored(existing_bets, position) == TRUE

\* existing_bets.iter().any(..) over the position closure
is_position_free(existing_bets, position) ==
  \E i \in 1..Len(existing_bets) : position_differs(existing_bets[i], position)

\* the DoesNotFinish arm keyed on the category alone, like FastestLap
dnf_free_any_driver(existing_bets, driver) ==
  ~ \E i \in 1..Len(existing_bets) : existing_bets[i].kind = "DoesNotFinish"

\* the DoesNotFinish arm
dnf_free(existing_bets, driver) ==
  ~ \E i \in 1..Len(existing_bets) : existing_bets[i] = DoesNotFinish(driver)

\* the variant arms with all() in the place of any()
variant_free_all(existing_bets, kind) ==
  ~ \A i \in 1..Len(existing_bets) : discriminant(existing_bets[i]) = kind

\* the DriverOfTheDay and FastestLap arms: no bet of that variant
variant_free(existing_bets, kind) ==
  ~ \E i \in 1..Len(existing_bets) : discriminant(existing_bets[i]) = kind

\* the WillHaveSafetyCar arm: filter(..).count() == 0
safety_car_free(existing_bets) ==
  Cardinality({ i \in 1..Len(existing_bets) :
                  \/ existing_bets[i] = WillHaveSafetyCar(TRUE)
                  \/ existing_bets[i] = WillHaveSafetyCar(FALSE) }) = 0

\* the match of is_bet_valid without the early return for no bets
bet_valid_against_unguarded(existing_bets, bet_type) ==
  CASE bet_type.kind = "FinishPosition" ->
         /\ is_driver_free(existing_bets, bet_type.driver)
         /\ is_position_free(existing_bets, bet_type.position)
    [] bet_type.kind = "DoesNotFinish" ->
         dnf_free(existing_bets, bet_type.driver)
    [] bet_type.kind = "DriverOfTheDay" ->
         variant_free(existing_bets, discriminant(DriverOfTheDay("MAG")))
    [] bet_type.kind = "FastestLap" ->
         variant_free(existing_bets, discriminant(FastestLap("MAG")))
    [] bet_type.kind = "WillHaveSafetyCar" ->
         safety_car_free(existing_bets)

bet_valid_against(existing_bets, bet_type) ==
  IF Len(existing_bets) = 0 THEN TRUE
  ELSE CASE bet_type.kind = "FinishPosition" ->
              /\ is_driver_free(existing_bets, bet_type.driver)
              /\ is_position_free(existing_bets, bet_type.position)
         [] bet_type.kind = "DoesNotFinish" ->
              dnf_free(existing_bets, bet_type.driver)
         [] bet_type.kind = "DriverOfTheDay" ->
              variant_free(existing_bets, discriminant(DriverOfTheDay("MAG")))
         [] bet_type.kind = "FastestLap" ->
              variant_free(existing_bets, discriminant(FastestLap("MAG")))
         [] bet_type.kind = "WillHaveSafetyCar" ->
              safety_car_free(existing_bets)

\* is_bet_valid closing a bet once its outcome is registered
is_bet_valid_until_outcome(bet_type, player) ==
  /\ bet_valid_against(get_bets_for(player), bet_type)
  /\ ~ \E k \in 1..Len(outcomes) : outcomes[k].outcome = bet_type

is_bet_valid(bet_type, player) ==
  bet_valid_against(get_bets_for(player), bet_type)

\* ---------------------------------------------------------------- results
\* *scores.entry(player_name).or_insert(0) += reward
\* add_score leaving out a reward of 0
add_score_nonzero(scores, player_name, reward) ==
  IF reward = u64(0) THEN scores
  ELSE [totals |-> IF player_name \in DOMAIN scores.totals
                     THEN [scores.totals EXCEPT
                             ![player_name] = overflowing_add(@, reward).value]
                     ELSE scores.totals @@ (player_name :> reward),
        overflowed |-> scores.overflowed
                         \/ /\ player_name \in DOMAIN scores.totals
                            /\ overflowing_add(scores.totals[player_name],
                                               reward).carry = 1]

\* scores.totals is the map; scores.overflowed records that a += overflowed
add_score(scores, player_name, reward) ==
  LET old == IF player_name \in DOMAIN scores.totals
               THEN scores.totals[player_name] ELSE u64(0)
      sum == overflowing_add(old, reward)
  IN  [totals |-> IF player_name \in DOMAIN scores.totals
                    THEN [scores.totals EXCEPT ![player_name] = sum.value]
                    ELSE scores.totals @@ (player_name :> sum.value),
       overflowed |-> scores.overflowed \/ sum.carry = 1]

\* for bet in bets { if bet == &outcome.outcome { .. } }, from the i-th bet on
RECURSIVE score_bets(_, _, _, _, _)
score_bets(scores, outcome, player_name, bets, i) ==
  IF i > Len(bets) THEN scores
  ELSE score_bets(
         IF bets[i] = outcome.outcome
           THEN add_score(scores, player_name, outcome.reward)
           ELSE scores,
         outcome, player_name, bets, i + 1)

\* for (player_name, bets) in self.placed_bets.iter(), in the map's order
RECURSIVE score_players(_, _, _, _)
score_players(scores, outcome, order, j) ==
  IF j > Len(order) THEN scores
  ELSE score_players(
         score_bets(scores, outcome, order[j], placed_bets[order[j]], 1),
         outcome, order, j + 1)

\* for outcome in &self.outcomes
RECURSIVE score_outcomes(_, _, _)
score_outcomes(scores, order, k) ==
  IF k > Len(outcomes) THEN scores
  ELSE score_outcomes(score_players(scores, outcomes[k], order, 1), order, k + 1)

results(order) ==
  score_outcomes([totals |-> EmptyMap, overflowed |-> FALSE], order, 1)

\* what a call of results() gives back: the map, or no value at all when a +=
\* overflowed in a build with overflow checks (a panic); without the checks
\* the sum wraps
results_call(order, overflow_checks) ==
  IF results(order).overflowed /\ overflow_checks
    THEN [op |-> "results", panicked |-> TRUE]
    ELSE [op |-> "results", panicked |-> FALSE, ret |-> results(order).totals]

\* the orders in which a HashMap with key set S may be iterated
IterationOrders(S) ==
  { s \in [1..Cardinality(S) -> S] : \A i, j \in DOMAIN s : i # j => s[i] # s[j] }

\* ---------------------------------------------------------------- actions
Ok(bet) == [tag |-> "Ok", value |-> bet]

ClashesWithExistingBet(bet) == [tag |-> "Err", existing_bet |-> bet]

\* the number of bets on the table
RECURSIVE TotalBets(_)
TotalBets(S) ==
  IF S = {} THEN 0
  ELSE LET p == CHOOSE q \in S : TRUE
       IN  Len(placed_bets[p]) + TotalBets(S \ {p})

\* what the table held when the last call was made
Snapshot == [placed_bets |-> placed_bets, outcomes |-> outcomes]

\* the bet inserted at the front of the collection
push_bet_front(player, bet) ==
  IF player \in DOMAIN placed_bets
    THEN [placed_bets EXCEPT ![player] = << bet >> \o @]
    ELSE placed_bets @@ (player :> << bet >>)

\* the entry of the player set to the new bet alone
push_bet_replace(player, bet) ==
  IF player \in DOMAIN placed_bets
    THEN [placed_bets EXCEPT ![player] = << bet >>]
    ELSE placed_bets @@ (player :> << bet >>)

\* self.placed_bets.entry(player).or_insert_with(Vec::new).push(bet)
push_bet(player, bet) ==
  IF player \in DOMAIN placed_bets
    THEN [placed_bets EXCEPT ![player] = Append(@, bet)]
    ELSE placed_bets @@ (player :> << bet >>)

\* place pushing the bet before it looks at the verdict
place_pushes_rejected(bet, player) ==
  /\ placed_bets' = push_bet(player, bet)
  /\ call' = [op |-> "place", bet |-> bet, player |-> player,
              ret |-> IF is_bet_valid(bet, player)
                        THEN Ok(bet) ELSE ClashesWithExistingBet(bet),
              before |-> Snapshot]
  /\ UNCHANGED outcomes

place(bet, player) ==
  /\ IF is_bet_valid(bet, player)
       THEN /\ placed_bets' = push_bet(player, bet)
            /\ call' = [op |-> "place", bet |-> bet, player |-> player,
                        ret |-> Ok(bet), before |-> Snapshot]
       ELSE /\ placed_bets' = placed_bets
            /\ call' = [op |-> "place", bet |-> bet, player |-> player,
                        ret |-> ClashesWithExistingBet(bet), before |-> Snapshot]
  /\ UNCHANGED outcomes

\* register_outcome skipping an outcome that is in the log already
register_outcome_once(outcome) ==
  /\ outcomes' = IF \E k \in 1..Len(outcomes) : outcomes[k] = outcome
                   THEN outcomes ELSE Append(outcomes, outcome)
  /\ call' = [op |-> "register_outcome", outcome |-> outcome, before |-> Snapshot]
  /\ UNCHANGED placed_bets

register_outcome(outcome) ==
  /\ outcomes' = Append(outcomes, outcome)
  /\ call' = [op |-> "register_outcome", outcome |-> outcome, before |-> Snapshot]
  /\ UNCHANGED placed_bets

\* results consuming the outcome log it pays out
Results_draining ==
  /\ \E order \in IterationOrders(DOMAIN placed_bets), overflow_checks \in BOOLEAN :
       call' = results_call(order, overflow_checks) @@ [before |-> Snapshot]
  /\ outcomes' = << >>
  /\ UNCHANGED placed_bets

Results ==
  /\ \E order \in IterationOrders(DOMAIN placed_bets), overflow_checks \in BOOLEAN :
       call' = results_call(order, overflow_checks) @@ [before |-> Snapshot]
  /\ UNCHANGED << placed_bets, outcomes >>

\* the table holds fewer than max bets
BetsBelow(max) == TotalBets(DOMAIN placed_bets) < max

\* place is called for any player with any bet
Place ==
  \E player \in Players, bet \in Bets :
    /\ is_bet_valid(bet, player) => BetsBelow(MaxBets)
    /\ place(bet, player)

\* register_outcome is called with any outcome
RegisterOutcome ==
  /\ Len(outcomes) < MaxOutcomes
  /\ \E outcome \in Outcomes : register_outcome(outcome)

\* no call before the last one is kept
Forget == UNCHANGED earlier

Next ==
  \/ Place /\ Forget
  \/ RegisterOutcome /\ Forget
  \/ Results /\ Forget

Spec == Init /\ [][Next]_vars

\* ------------------------------------------------- the scoring of a race
\* the calls of a race with few bets to choose from, rewards up to u64::MAX
\* and a longer outcome log
ScoreBets ==
  { FinishPosition(d, MinPosition) : d \in Drivers } \cup { WillHaveSafetyCar(TRUE) }

ScoreRewards == { u64(0), u64(1), U64_MAX }

ScoreOutcomes == { Outcome(b, r) : b \in ScoreBets, r \in ScoreRewards }

PlaceScore ==
  \E player \in Players, bet \in ScoreBets :
    /\ is_bet_valid(bet, player) => BetsBelow(MaxBets)
    /\ place(bet, player)

RegisterScore ==
  /\ Len(outcomes) < MaxScoreOutcomes
  /\ \E outcome \in ScoreOutcomes : register_outcome(outcome)

NextScore ==
  \/ PlaceScore /\ Forget
  \/ RegisterScore /\ Forget
  \/ Results /\ Forget

SpecScore == Init /\ [][NextScore]_vars

\* the same calls, with the call before the last one kept
KeepLast == earlier' = << call >>

NextHistory ==
  \/ PlaceScore /\ KeepLast
  \/ RegisterScore /\ KeepLast
  \/ Results /\ KeepLast

SpecHistory == Init /\ [][NextHistory]_vars

\* the history kept is the last call of results() and the call made after it
KeepSinceResults ==
  earlier' = IF call.op = "results" THEN << call >>
             ELSE IF Len(earlier) = 1 /\ earlier[1].op = "results"
                    THEN << earlier[1], call >>
                    ELSE << >>

NextBetween ==
  \/ PlaceScore /\ KeepSinceResults
  \/ RegisterScore /\ KeepSinceResults
  \/ Results /\ KeepSinceResults

SpecBetween == Init /\ [][NextBetween]_vars

\* ------------------------------------------------ building a Position
\* Position::new is called with any u8
NewPosition ==
  /\ \E position \in 0..U8_MAX :
       call' = [op |-> "Position::new", position |-> position,
                ret |-> Position_new(position)]
  /\ UNCHANGED << placed_bets, outcomes, earlier >>

SpecPosition == Init /\ [][NewPosition]_vars

\* ------------------------------------------------ the scoring scenario
\* the bets of many_players_can_place_many_different_bets_and_scoring_is_
\* correct, per player in the order they are placed
ScenarioBets ==
  [ demi |->
      << FinishPosition("VER", Position_new(1).value),
         FinishPosition("HAM", Position_new(1).value),
         WillHaveSafetyCar(TRUE),
         WillHaveSafetyCar(FALSE),
         FastestLap("LEC"),
         FastestLap("HAM"),
         DriverOfTheDay("LEC"),
         DriverOfTheDay("HAM") >>,
    michiel |->
      << FinishPosition("VER", Position_new(1).value) >> ]

\* the outcomes it registers, in order
ScenarioOutcomes ==
  << Outcome(FinishPosition("VER", Position_new(1).value), u64(1000)),
     Outcome(WillHaveSafetyCar(TRUE), u64(500)),
     Outcome(FastestLap("LEC"), u64(2500)),
     Outcome(DriverOfTheDay("LEC"), u64(5000)) >>

\* every call made so far, the last one included
Log == Append(earlier, call)

\* the number of place calls made for a player
PlaceCalls(player) ==
  Cardinality({ k \in 1..Len(Log) :
                  Log[k].op = "place" /\ Log[k].player = player })

KeepAll == earlier' = Log

\* the next bet of a player is placed; the calls for the two players and
\* the registrations touch different data and are taken in any order
PlaceScenario ==
  \E player \in DOMAIN ScenarioBets :
    /\ PlaceCalls(player) < Len(ScenarioBets[player])
    /\ place(ScenarioBets[player][PlaceCalls(player) + 1], player)

RegisterScenario ==
  /\ Len(outcomes) < Len(ScenarioOutcomes)
  /\ register_outcome(ScenarioOutcomes[Len(outcomes) + 1])

\* results() is called once, after every other call
ResultsScenario ==
  /\ \A player \in DOMAIN ScenarioBets :
       PlaceCalls(player) = Len(ScenarioBets[player])
  /\ Len(outcomes) = Len(ScenarioOutcomes)
  /\ call.op # "results"
  /\ Results

NextScenario ==
  \/ PlaceScenario /\ KeepAll
  \/ RegisterScenario /\ KeepAll
  \/ ResultsScenario /\ KeepAll

SpecScenario == Init /\ [][NextScenario]_vars

TypeOK ==
  /\ DOMAIN placed_bets \subseteq Players
  /\ \A p \in DOMAIN placed_bets : placed_bets[p] \in Seq(Bets)
  /\ outcomes \in Seq(Outcomes \cup ScoreOutcomes)


\* ------------------------------------------------------- reading the call
\* the collection a player held when the last call was made
BetsBefore(player) ==
  IF player \in DOMAIN call.before.placed_bets
    THEN call.before.placed_bets[player]
    ELSE << >>

BetsNow(player) ==
  IF player \in DOMAIN placed_bets THEN placed_bets[player] ELSE << >>

Holds(bets, bet) == \E i \in 1..Len(bets) : bets[i] = bet

HoldsKind(bets, kind) == \E i \in 1..Len(bets) : bets[i].kind = kind

IsPrefix(s, t) ==
  /\ Len(s) <= Len(t)
  /\ \A i \in 1..Len(s) : s[i] = t[i]

Placed == call.op = "place"

Accepted == Placed /\ call.ret.tag = "Ok"

Rejected == Placed /\ call.ret.tag = "Err"

SingularKinds == { "FastestLap", "DriverOfTheDay", "WillHaveSafetyCar" }

\* ----------------------------------------------------------------- claims
\* C1: a FinishPosition{d, p} bet is accepted if and only if the player's
\* collection holds no FinishPosition bet with driver d and none with
\* position p, whatever else the collection holds.
C1_FinishPositionAdmission ==
  (Placed /\ call.bet.kind = "FinishPosition") =>
    ( call.ret.tag = "Ok" <=>
        \A i \in 1..Len(BetsBefore(call.player)) :
          LET held == BetsBefore(call.player)[i]
          IN  held.kind = "FinishPosition" =>
                /\ held.driver # call.bet.driver
                /\ held.position # call.bet.position )

\* C2: every player's collection satisfies all admissibility rules at once.
C2_CollectionsAdmissible ==
  \A player \in DOMAIN placed_bets :
    LET bets == placed_bets[player]
    IN  \A i, j \in 1..Len(bets) :
          (i # j /\ bets[i].kind = bets[j].kind) =>
            CASE bets[i].kind = "FinishPosition" ->
                   /\ bets[i].driver # bets[j].driver
                   /\ bets[i].position # bets[j].position
              [] bets[i].kind = "DoesNotFinish" ->
                   bets[i].driver # bets[j].driver
              [] OTHER -> FALSE

\* C3: placing a bet equal to one the player already holds returns the
\* ClashesWithExistingBet error, so no collection holds two equal bets.
C3_SameBetRejected ==
  /\ (Placed /\ Holds(BetsBefore(call.player), call.bet)) =>
       call.ret = ClashesWithExistingBet(call.bet)
  /\ \A player \in DOMAIN placed_bets :
       \A i, j \in 1..Len(placed_bets[player]) :
         i # j => placed_bets[player][i] # placed_bets[player][j]

\* C4: a FastestLap, DriverOfTheDay or WillHaveSafetyCar bet is accepted
\* exactly when the player holds no bet of that category, whatever the
\* payload; a held bet of such a category stays held over every call, so
\* every later bet of the category is rejected.
C4_SingularCategories ==
  /\ (Placed /\ call.bet.kind \in SingularKinds) =>
       ( call.ret.tag = "Ok" <=>
           ~ HoldsKind(BetsBefore(call.player), call.bet.kind) )
  /\ call.op # "new" =>
       \A player \in Players, kind \in SingularKinds :
         HoldsKind(BetsBefore(player), kind) => HoldsKind(BetsNow(player), kind)
  /\ \A player \in Players, kind \in SingularKinds :
       Cardinality({ i \in 1..Len(BetsNow(player)) :
                       BetsNow(player)[i].kind = kind }) <= 1

\* a bet of a singular category was rejected although its payload differs
\* from the one the player holds
C4_Witness ==
  /\ Rejected
  /\ call.bet.kind \in SingularKinds
  /\ ~ Holds(BetsBefore(call.player), call.bet)
  /\ Len(BetsBefore(call.player)) >= 2

\* C5: DoesNotFinish(d) is accepted if and only if the player holds no
\* DoesNotFinish bet for the same driver d.
C5_DoesNotFinishPerDriver ==
  (Placed /\ call.bet.kind = "DoesNotFinish") =>
    ( call.ret.tag = "Ok" <=> ~ Holds(BetsBefore(call.player), call.bet) )

\* DoesNotFinish for a second driver was accepted and the player now holds
\* both, next to a bet of another category
C5_Witness ==
  /\ Accepted
  /\ call.bet.kind = "DoesNotFinish"
  /\ \E i \in 1..Len(BetsBefore(call.player)) :
       /\ BetsBefore(call.player)[i].kind = "DoesNotFinish"
       /\ BetsBefore(call.player)[i].driver # call.bet.driver
  /\ \E i \in 1..Len(BetsBefore(call.player)) :
       BetsBefore(call.player)[i].kind # "DoesNotFinish"

\* C6: a rejected place returns ClashesWithExistingBet carrying the rejected
\* bet and leaves every collection and the outcome log as they were.
C6_RejectionChangesNothing ==
  Rejected =>
    /\ call.ret = ClashesWithExistingBet(call.bet)
    /\ placed_bets = call.before.placed_bets
    /\ outcomes = call.before.outcomes

\* a bet was rejected that differs from every bet the player holds, on a
\* table with a registered outcome
C6_Witness ==
  /\ Rejected
  /\ ~ Holds(BetsNow(call.player), call.bet)
  /\ Len(outcomes) > 0

\* the outcomes a player holds an equal bet for, by their place in the log
MatchedOutcomes(player) ==
  { k \in 1..Len(outcomes) : Holds(BetsNow(player), outcomes[k].outcome) }

\* a sum of u64 values as a number: wraps * 2^64 + low
Wide(v) == [wraps |-> 0, low |-> v]

WideAdd(w, v) ==
  [wraps |-> w.wraps + overflowing_add(w.low, v).carry,
   low |-> overflowing_add(w.low, v).value]

\* results() returned a map
Returned == call.op = "results" /\ ~ call.panicked

\* the score of a player in the returned map, 0 for a player not in it
Score(player) ==
  IF player \in DOMAIN call.ret THEN call.ret[player] ELSE u64(0)

RECURSIVE SumRewards(_)
SumRewards(K) ==
  IF K = {} THEN Wide(u64(0))
  ELSE LET k == CHOOSE x \in K : TRUE
       IN  WideAdd(SumRewards(K \ {k}), outcomes[k].reward)

\* C7: results() gives every player exactly the sum of the rewards of the
\* registered outcomes the player holds an equal bet for, each outcome
\* counted once.
C7_ResultsSumMatchedOutcomes ==
  Returned =>
    \A player \in Players :
      Wide(Score(player)) = SumRewards(MatchedOutcomes(player))

\* C8: an accepted place returns Ok with the bet unchanged and appends it to
\* the end of the player's collection; no call removes, alters or reorders
\* a stored bet.
C8_AcceptedBetAppended ==
  /\ Accepted =>
       /\ call.ret = Ok(call.bet)
       /\ BetsNow(call.player) = Append(BetsBefore(call.player), call.bet)
  /\ call.op # "new" =>
       \A player \in Players : IsPrefix(BetsBefore(player), BetsNow(player))

\* a bet was appended behind two bets the player already held
C8_Witness ==
  /\ Accepted
  /\ Len(BetsBefore(call.player)) = 2
  /\ BetsNow(call.player)[3] = call.bet

\* C9: place reads and writes only the entry of the player it is called for:
\* the decision is the one the player's own collection gives, and every
\* other player's collection and the outcome log stay as they were.
C9_PlaceTouchesOnePlayer ==
  Placed =>
    /\ call.ret.tag = "Ok" <=> bet_valid_against(BetsBefore(call.player), call.bet)
    /\ \A other \in Players \ {call.player} :
         /\ BetsNow(other) = BetsBefore(other)
         /\ other \in DOMAIN placed_bets <=> other \in DOMAIN call.before.placed_bets
    /\ outcomes = call.before.outcomes

\* a bet was accepted that another player already holds, and that the other
\* player could not place again
C9_Witness ==
  /\ Accepted
  /\ \E other \in Players \ {call.player} :
       /\ Holds(BetsNow(other), call.bet)
       /\ ~ bet_valid_against(BetsNow(other), call.bet)

\* C10: results() changes neither the placed bets nor the outcome log, and
\* a second call right after it returns the same mapping, in whatever order
\* the map is iterated.
C10_ResultsPureIdempotent ==
  call.op = "results" =>
    /\ placed_bets = call.before.placed_bets
    /\ outcomes = call.before.outcomes
    /\ \A order \in IterationOrders(DOMAIN placed_bets) :
         IF call.panicked THEN results(order).overflowed
                          ELSE results(order).totals = call.ret

\* results() returned scores for two players
C10_Witness ==
  /\ Returned
  /\ Cardinality(DOMAIN call.ret) = 2
  /\ \E player \in DOMAIN call.ret : call.ret[player] # u64(0)

\* C11: register_outcome appends its outcome to the end of the log, whether
\* or not somebody holds its bet or it is in the log already, and leaves
\* the placed bets alone; no call removes, alters or reorders an outcome of
\* the log.
C11_OutcomeLogAppendOnly ==
  /\ call.op = "register_outcome" =>
       /\ outcomes = Append(call.before.outcomes, call.outcome)
       /\ placed_bets = call.before.placed_bets
  /\ call.op # "new" => IsPrefix(call.before.outcomes, outcomes)

\* an outcome was registered a second time, for a bet nobody holds, on a
\* table with bets
C11_Witness ==
  /\ call.op = "register_outcome"
  /\ \E k \in 1..Len(call.before.outcomes) : call.before.outcomes[k] = call.outcome
  /\ \A player \in Players : ~ Holds(BetsNow(player), call.outcome.outcome)
  /\ DOMAIN placed_bets # {}
  /\ Len(outcomes) = 2

\* C12: the keys of the map results() returns are exactly the players who
\* hold a bet equal to the bet of some registered outcome, a reward of 0
\* included; every other player has no entry.
C12_ResultsKeysAreMatchingPlayers ==
  Returned =>
    DOMAIN call.ret = { player \in Players : MatchedOutcomes(player) # {} }

\* a player has an entry of 0, and a player with a bet has no entry
C12_Witness ==
  /\ Returned
  /\ \E player \in DOMAIN call.ret : call.ret[player] = u64(0)
  /\ \E player \in DOMAIN placed_bets : player \notin DOMAIN call.ret

\* the (outcome, bet) pairs results() pays a player for
MatchedPairs(player) ==
  { pair \in (1..Len(outcomes)) \X (1..Len(BetsNow(player))) :
      BetsNow(player)[pair[2]] = outcomes[pair[1]].outcome }

RECURSIVE SumPairs(_)
SumPairs(P) ==
  IF P = {} THEN Wide(u64(0))
  ELSE LET pair == CHOOSE x \in P : TRUE
       IN  WideAdd(SumPairs(P \ {pair}), outcomes[pair[1]].reward)

\* C13: results() never fails: it returns a map, and the total of every
\* player in it is the sum of the rewards added, as a number (not wrapped
\* modulo 2^64).
C13_ResultsNeverOverflows ==
  call.op = "results" =>
    /\ ~ call.panicked
    /\ \A player \in Players : Wide(Score(player)) = SumPairs(MatchedPairs(player))

\* C14: Position::new(n) gives the position n exactly when 1 <= n <= 20; for
\* every other u8 it panics, which is no ClashesWithExistingBet, and n is
\* never brought into the range; positions are equal iff their numbers are.
C14_PositionRange ==
  call.op = "Position::new" =>
    /\ call.ret.tag = "Ok" <=> (1 <= call.position /\ call.position <= 20)
    /\ call.ret.tag = "Ok" =>
         /\ call.ret.value = call.position
         /\ \A n \in 0..U8_MAX :
              Position_new(n).tag = "Ok" =>
                (Position_new(n).value = call.ret.value <=> n = call.position)
    /\ call.ret.tag # "Ok" =>
         /\ call.ret.tag = "Panic"
         /\ call.ret.tag # ClashesWithExistingBet(FastestLap("MAG")).tag

\* Position::new(21) panicked
C14_Witness ==
  /\ call.op = "Position::new"
  /\ call.position = 21
  /\ call.ret.tag = "Panic"

\* C15: a player with no stored bet is accepted with every bet.
C15_FirstBetAccepted ==
  (Placed /\ Len(BetsBefore(call.player)) = 0) => call.ret = Ok(call.bet)

\* the first bet of a player was accepted on a table where another player
\* holds the same bet
C15_Witness ==
  /\ Accepted
  /\ call.player \notin DOMAIN call.before.placed_bets
  /\ \E other \in Players \ {call.player} : Holds(BetsNow(other), call.bet)
  /\ call.bet.kind = "FinishPosition"

\* the verdicts the scenario asserts, per player in the order of the calls
ScenarioVerdicts ==
  [ demi |-> << "Ok", "Err", "Ok", "Err", "Ok", "Err", "Ok", "Err" >>,
    michiel |-> << "Ok" >> ]

\* C16: in the scenario demi's FinishPosition{VER,1}, WillHaveSafetyCar(true),
\* FastestLap(LEC) and DriverOfTheDay(LEC) and michiel's FinishPosition{VER,1}
\* are accepted, demi's FinishPosition{HAM,1}, WillHaveSafetyCar(false),
\* FastestLap(HAM) and DriverOfTheDay(HAM) are rejected, and with the four
\* outcomes registered results() is demi = 9000, michiel = 1000.
C16_ScenarioScores ==
  /\ Placed =>
       call.ret.tag = ScenarioVerdicts[call.player][PlaceCalls(call.player)]
  /\ call.op = "results" =>
       /\ ~ call.panicked
       /\ call.ret = ("demi" :> u64(9000)) @@ ("michiel" :> u64(1000))

\* results() was called after the calls were made in the order of the test
C16_Witness ==
  /\ call.op = "results"
  /\ Len(earlier) = 14
  /\ earlier[3].op = "place"
  /\ earlier[3].player = "michiel"
  /\ \A k \in 11..14 : earlier[k].op = "register_outcome"

\* the bets of one category in a collection, in their order
SameKind(bets, kind) == SelectSeq(bets, LAMBDA b : b.kind = kind)

\* C17: the verdict on a bet is the verdict its own category gives: with
\* the bets of the other categories taken out of the player's collection
\* (some bet staying) the bet is accepted or rejected as before.
C17_OwnCategoryDecides ==
  (Placed /\ SameKind(BetsBefore(call.player), call.bet.kind) # << >>) =>
    ( call.ret.tag = "Ok" <=>
        bet_valid_against(SameKind(BetsBefore(call.player), call.bet.kind),
                          call.bet) )

\* C18: place(w, P) and register_outcome(o) commute: made one after the
\* other in either order from a table, place returns what it returns on
\* that table and the table ends the same, so results() is the same.
C18_PlaceRegisterCommute ==
  ( /\ Len(earlier) = 1
    /\ { earlier[1].op, call.op } = { "place", "register_outcome" } ) =>
    LET placing == IF call.op = "place" THEN call ELSE earlier[1]
        registering == IF call.op = "place" THEN earlier[1] ELSE call
        start == earlier[1].before
        held == IF placing.player \in DOMAIN start.placed_bets
                  THEN start.placed_bets[placing.player] ELSE << >>
        valid == bet_valid_against(held, placing.bet)
    IN  /\ placing.ret = IF valid THEN Ok(placing.bet)
                                  ELSE ClashesWithExistingBet(placing.bet)
        /\ BetsNow(placing.player) =
             IF valid THEN Append(held, placing.bet) ELSE held
        /\ \A other \in Players \ {placing.player} :
             BetsNow(other) = IF other \in DOMAIN start.placed_bets
                                THEN start.placed_bets[other] ELSE << >>
        /\ outcomes = Append(start.outcomes, registering.outcome)

\* a bet was accepted right after the outcome with the same bet was
\* registered
C18_Witness ==
  /\ Len(earlier) = 1
  /\ earlier[1].op = "register_outcome"
  /\ Accepted
  /\ earlier[1].outcome.outcome = call.bet
  /\ Len(BetsBefore(call.player)) > 0

\* a <= b on u64, from the most significant digit down
RECURSIVE le_limbs(_, _, _)
le_limbs(a, b, i) ==
  IF i = 0 THEN TRUE
  ELSE IF a[i] # b[i] THEN a[i] < b[i] ELSE le_limbs(a, b, i - 1)

u64_le(a, b) == le_limbs(a, b, NumLimbs)

\* the score of a player in a map of totals, 0 for a player not in it
ScoreIn(totals, player) ==
  IF player \in DOMAIN totals THEN totals[player] ELSE u64(0)

\* results() was called, one call was made, and results() was called again
Between ==
  /\ call.op = "results"
  /\ Len(earlier) = 2
  /\ earlier[1].op = "results"

\* no total of the table is over u64::MAX
WithinU64 ==
  \A order \in IterationOrders(DOMAIN placed_bets) :
    ~ results(order).overflowed

\* C19: as long as no total overflows, a call between two calls of
\* results() lowers the score of no player; a rejected place changes no
\* score and an accepted place only the score of its player.
C19_ScoresNeverDecrease ==
  (Between /\ WithinU64) =>
    /\ ~ earlier[1].panicked
    /\ ~ call.panicked
    /\ \A player \in Players :
         u64_le(ScoreIn(earlier[1].ret, player), ScoreIn(call.ret, player))
    /\ (earlier[2].op = "place" /\ earlier[2].ret.tag = "Err") =>
         call.ret = earlier[1].ret
    /\ (earlier[2].op = "place" /\ earlier[2].ret.tag = "Ok") =>
         \A other \in Players \ {earlier[2].player} :
           ScoreIn(call.ret, other) = ScoreIn(earlier[1].ret, other)

\* between the two calls a bet was accepted behind another bet of the
\* player, and both are paid
C19_Witness ==
  /\ Between
  /\ WithinU64
  /\ earlier[2].op = "place"
  /\ earlier[2].ret.tag = "Ok"
  /\ ScoreIn(earlier[1].ret, earlier[2].player) = u64(1)
  /\ ScoreIn(call.ret, earlier[2].player) = u64(2)

\* C20: every entry of placed_bets holds at least one bet: only an accepted
\* place makes an entry, a rejected place makes none, and so only a player
\* who holds a bet is rejected.
C20_EntriesNonEmpty ==
  /\ \A player \in DOMAIN placed_bets : Len(placed_bets[player]) > 0
  /\ Rejected =>
       /\ Len(BetsBefore(call.player)) > 0
       /\ DOMAIN placed_bets = DOMAIN call.before.placed_bets
  /\ Accepted =>
       DOMAIN placed_bets = DOMAIN call.before.placed_bets \cup {call.player}
  /\ call.op \in { "register_outcome", "results" } =>
       DOMAIN placed_bets = DOMAIN call.before.placed_bets

\* a bet was rejected while the other player has no entry
C20_Witness ==
  /\ Rejected
  /\ DOMAIN placed_bets = {call.player}
  /\ call.bet.kind = "FinishPosition"

====
